---- MODULE Spec2Model ----
(***************************************************************************)
(* lfmc: query Last.fm for a user's top artists and print an announcement. *)
(* The model follows src/src/main.rs: Config::get_uri, construct_output    *)
(* (statement by statement) and main.                                      *)
(*                                                                         *)
(* A Rust String is a sequence of characters, each character a one-letter  *)
(* TLA+ string; the musical note U+266B is written "U+266B".               *)
(***************************************************************************)
EXTENDS Integers, Sequences, FiniteSets

VARIABLES
    pc,               \* position in main / construct_output
    overflow_checks,  \* build profile: TRUE = debug (overflow panics), FALSE = release (wraps)
    config,           \* the Config built from the arguments
    uri,              \* the String returned by config.get_uri()
    resp,             \* the Result of the HTTP step's .json::<Value>()
    period,           \* construct_output: the resolved label
    output,           \* construct_output: the accumulated String
    artists,          \* construct_output: the array at topartists.artist
    i,                \* construct_output: index of the next entry of the loop
    result,           \* construct_output: the returned Result<String>
    stdout,           \* what the process has written to standard output
    exit              \* how the process ended

vars == <<pc, overflow_checks, config, uri, resp, period, output, artists, i,
          result, stdout, exit>>

---------------------------------------------------------------------------
(* Bounds of the model. *)

\* longest artist array made of well-formed entries only
MaxLen == 4
\* longest artist array in which ill-formed entries may occur
MaxMixedLen == 2
\* largest small value of --limit (the largest u16 is drawn as well)
MaxLimit == 5

\* u16::MAX, the largest value of Args::limit
U16Max == 65535

---------------------------------------------------------------------------
(* Option and Result. *)

Unset == [unset |-> TRUE]
None == [some |-> FALSE]
Some(x) == [some |-> TRUE, v |-> x]
Ok(x) == [ok |-> TRUE, v |-> x]
Err(m) == [ok |-> FALSE, msg |-> m]

---------------------------------------------------------------------------
(* Strings. *)

RECURSIVE Concat(_)
Concat(ss) == IF ss = <<>> THEN <<>> ELSE Head(ss) \o Concat(Tail(ss))

\* does s occur in t starting at position k (1-based)
OccursAt(s, t, k) ==
    /\ k + Len(s) - 1 <= Len(t)
    /\ \A j \in 1..Len(s) : t[k + j - 1] = s[j]

\* str::find(pat).is_some()
Contains(t, s) == \E k \in 1..(Len(t) + 1) : OccursAt(s, t, k)

StartsWith(t, s) == OccursAt(s, t, 1)
EndsWith(t, s) == Len(s) <= Len(t) /\ OccursAt(s, t, Len(t) - Len(s) + 1)

\* the pieces of t between occurrences of the character c
RECURSIVE Split(_, _)
Split(t, c) ==
    IF \A k \in 1..Len(t) : t[k] # c
    THEN <<t>>
    ELSE LET k == CHOOSE k \in 1..Len(t) :
                      t[k] = c /\ \A j \in 1..(k - 1) : t[j] # c
         IN  <<SubSeq(t, 1, k - 1)>> \o Split(SubSeq(t, k + 1, Len(t)), c)

Digits == <<"0", "1", "2", "3", "4", "5", "6", "7", "8", "9">>

\* u16::to_string / Display for u16: the decimal form
RECURSIVE to_string(_)
to_string(n) ==
    IF n < 10 THEN <<Digits[n + 1]>>
    ELSE to_string(n \div 10) \o <<Digits[(n % 10) + 1]>>

---------------------------------------------------------------------------
(* serde_json::Value. *)

Null == [t |-> "null"]
Str(s) == [t |-> "string", s |-> s]
Num(n) == [t |-> "number", n |-> n]
Arr(a) == [t |-> "array", a |-> a]
Obj(o) == [t |-> "object", o |-> o]

\* Value's Index<&str>: the member of an object, Null for anything else
Index(val, key) ==
    IF val.t = "object" /\ key \in DOMAIN val.o THEN val.o[key] ELSE Null

\* as_array with a non-array read as the empty array
AsArrayLenient(val) == IF val.t = "array" THEN Some(val.a) ELSE Some(<<>>)

\* Value::as_array
AsArray(val) == IF val.t = "array" THEN Some(val.a) ELSE None

\* Value::as_str
AsStr(val) == IF val.t = "string" THEN Some(val.s) ELSE None

---------------------------------------------------------------------------
(* Config. *)

Config(api_key, username, limit, per) ==
    [api_key |-> api_key, username |-> username, limit |-> limit, period |-> per]

UriBase == <<"h", "t", "t", "p", ":", "/", "/", "w", "s", ".", "a", "u", "d", "i",
       "o", "s", "c", "r", "o", "b", "b", "l", "e", "r", ".", "c", "o",
       "m", "/">>
ApiVersion == <<"2", ".", "0">>
Method == <<"u", "s", "e", "r", ".", "g", "e", "t", "t", "o", "p", "a", "r", "t",
       "i", "s", "t", "s">>
Format == <<"j", "s", "o", "n">>

\* get_uri with username and api_key exchanged in the argument list
get_uri_swapped(c) ==
    Concat(<<UriBase, ApiVersion, <<"/", "?", "m", "e", "t", "h", "o", "d", "=">>, Method,
             <<"&", "u", "s", "e", "r", "=">>, c.api_key,
             <<"&", "a", "p", "i", "_", "k", "e", "y", "=">>, c.username,
             <<"&", "f", "o", "r", "m", "a", "t", "=">>, Format,
             <<"&", "p", "e", "r", "i", "o", "d", "=">>, c.period,
             <<"&", "l", "i", "m", "i", "t", "=">>, to_string(c.limit)>>)

\* Config::get_uri: the format! of lines 49-58
get_uri(c) ==
    Concat(<<UriBase, ApiVersion, <<"/", "?", "m", "e", "t", "h", "o", "d", "=">>, Method,
             <<"&", "u", "s", "e", "r", "=">>, c.username,
             <<"&", "a", "p", "i", "_", "k", "e", "y", "=">>, c.api_key,
             <<"&", "f", "o", "r", "m", "a", "t", "=">>, Format,
             <<"&", "p", "e", "r", "i", "o", "d", "=">>, c.period,
             <<"&", "l", "i", "m", "i", "t", "=">>, to_string(c.limit)>>)

---------------------------------------------------------------------------
(* construct_output: the pure parts. *)

Overall == <<"o", "v", "e", "r", "a", "l", "l">>
SevenDay == <<"7", "d", "a", "y">>
OneMonth == <<"1", "m", "o", "n", "t", "h">>
ThreeMonth == <<"3", "m", "o", "n", "t", "h">>
SixMonth == <<"6", "m", "o", "n", "t", "h">>
TwelveMonth == <<"1", "2", "m", "o", "n", "t", "h">>

ValidPeriods == {Overall, SevenDay, OneMonth, ThreeMonth, SixMonth, TwelveMonth}

\* the match with a silent default instead of the error arm
PeriodLabelDefault(p) ==
    IF p = Overall THEN Some(<<>>)
    ELSE IF p = SevenDay THEN Some(<<" ", "w", "e", "e", "k">>)
    ELSE IF p = OneMonth THEN Some(<<" ", "m", "o", "n", "t", "h">>)
    ELSE IF p = ThreeMonth THEN Some(<<" ", "3", " ", "m", "o", "n", "t", "h", "s">>)
    ELSE IF p = SixMonth THEN Some(<<" ", "6", " ", "m", "o", "n", "t", "h", "s">>)
    ELSE IF p = TwelveMonth THEN Some(<<" ", "y", "e", "a", "r">>)
    ELSE Some(<<>>)

\* the match with the labels of 3month and 6month exchanged
PeriodLabelSwapped(p) ==
    IF p = Overall THEN Some(<<>>)
    ELSE IF p = SevenDay THEN Some(<<" ", "w", "e", "e", "k">>)
    ELSE IF p = OneMonth THEN Some(<<" ", "m", "o", "n", "t", "h">>)
    ELSE IF p = ThreeMonth THEN Some(<<" ", "6", " ", "m", "o", "n", "t", "h", "s">>)
    ELSE IF p = SixMonth THEN Some(<<" ", "3", " ", "m", "o", "n", "t", "h", "s">>)
    ELSE IF p = TwelveMonth THEN Some(<<" ", "y", "e", "a", "r">>)
    ELSE None

\* the match of lines 63-71: Some(label), or None for the `_` arm
PeriodLabel(p) ==
    IF p = Overall THEN Some(<<>>)
    ELSE IF p = SevenDay THEN Some(<<" ", "w", "e", "e", "k">>)
    ELSE IF p = OneMonth THEN Some(<<" ", "m", "o", "n", "t", "h">>)
    ELSE IF p = ThreeMonth THEN Some(<<" ", "3", " ", "m", "o", "n", "t", "h", "s">>)
    ELSE IF p = SixMonth THEN Some(<<" ", "6", " ", "m", "o", "n", "t", "h", "s">>)
    ELSE IF p = TwelveMonth THEN Some(<<" ", "y", "e", "a", "r">>)
    ELSE None

\* the anyhow! message of line 70
InvalidPeriodMsg(p) ==
    Concat(<<<<"P", "e", "r", "i", "o", "d", " ">>, p,
             <<" ", "n", "o", "t", " ", "a", "l", "l", "o", "w", "e", "d", ".", " ",
       "O", "n", "l", "y", " ", "a", "l", "l", "o", "w", " ", "\"",
       "o", "v", "e", "r", "a", "l", "l", "\"", ",", " ", "\"", "7",
       "d", "a", "y", "\"", ",", " ", "\"", "1", "m", "o", "n", "t",
       "h", "\"", ",", " ", "\"", "3", "m", "o", "n", "t", "h", "\"",
       ",", " ", "\"", "6", "m", "o", "n", "t", "h", "\"", ",", " ",
       "o", "r", " ", "\"", "1", "2", "m", "o", "n", "t", "h", "\"",
       ".">>>>)

MalformedMsg == <<"E", "r", "r", "o", "r", " ", "p", "a", "r", "s", "i", "n", "g", " ",
       "J", "S", "O", "N", ".">>
ArtistMsg == <<"A", "r", "t", "i", "s", "t", " ", "n", "o", "t", " ", "f", "o", "u",
       "n", "d", ".">>
PlaycountMsg == <<"P", "l", "a", "y", "c", "o", "u", "n", "t", " ", "n", "o", "t", " ",
       "f", "o", "u", "n", "d", ".">>

\* the format! of lines 74-78
Header(limit, label) ==
    Concat(<<<<"U+266B", " ", "M", "y", " ", "T", "o", "p", " ">>, to_string(limit), <<" ", "p", "l", "a", "y", "e", "d", " ", "a", "r", "t", "i", "s", "t",
       "s", " ", "i", "n", " ", "t", "h", "e", " ", "p", "a", "s", "t">>,
             label, <<" ", "v", "i", "a", " ", "#", "L", "a", "s", "t", "F", "M", " ",
       "U+266B", ":", "\n">>>>)

\* `a - b` on usize.  The machine value is v when the subtraction does not
\* overflow and v + 2^64 when it wraps; 2^64 is not written out.
UsizeSub(a, b) == [overflow |-> a < b, v |-> a - b]

\* x <= d and x == d for an index x of a Vec (x < 2^63) and a difference d of
\* at most 3: a wrapped d is at least 2^64 - 3, above every index.
UsizeLe(x, d) == d.overflow \/ x <= d.v
UsizeEq(x, d) == ~d.overflow /\ x = d.v

\* the match with `<` for `<=` in the first guard
EndingStrict(x, limit) ==
    IF ~UsizeSub(limit, 3).overflow /\ x < UsizeSub(limit, 3).v THEN <<",">>
    ELSE IF UsizeEq(x, UsizeSub(limit, 2)) THEN <<",", " ", "&">>
    ELSE <<>>

\* the match of lines 87-91, guards evaluated in order
Ending(x, limit) ==
    IF UsizeLe(x, UsizeSub(limit, 3)) THEN <<",">>
    ELSE IF UsizeEq(x, UsizeSub(limit, 2)) THEN <<",", " ", "&">>
    ELSE <<>>

\* does evaluating the guards of lines 88-89 overflow for index x
EndingOverflows(x, limit) ==
    \/ UsizeSub(limit, 3).overflow
    \/ ~UsizeLe(x, UsizeSub(limit, 3)) /\ UsizeSub(limit, 2).overflow

\* the format! of line 100
Accumulate(out, name, playcount, ending) ==
    Concat(<<<<" ">>, out, <<" ">>, name, <<" ", "(">>, playcount, <<")">>, ending>>)

\* the format! of line 105
Finalize(out) == out \o <<".">>

---------------------------------------------------------------------------
(* The inputs: command lines and HTTP responses. *)

Fia == <<"F", "i", "a">>
Sea == <<"S", "e", "a">>
Seven == <<"7">>
Twelve == <<"1", "2">>

\* entries with a string name and a string playcount (extra fields allowed)
WellFormed ==
    { Obj([name |-> Str(Fia), playcount |-> Str(Seven)]),
      Obj([name |-> Str(Sea), playcount |-> Str(Twelve), mbid |-> Str(<<>>)]) }

\* entries whose name is not a string
BadName ==
    { Obj([playcount |-> Str(Seven)]),
      Obj([name |-> Num(3), playcount |-> Str(Seven)]),
      Obj([mbid |-> Str(<<>>)]),
      Str(Fia) }

\* entries whose name is a string and whose playcount is not
BadPlaycount ==
    { Obj([name |-> Str(Fia)]),
      Obj([name |-> Str(Sea), playcount |-> Num(12)]) }

Entries == WellFormed \cup BadName \cup BadPlaycount

SeqsUpTo(S, n) == UNION { [1..k -> S] : k \in 0..n }

ArtistArrays == SeqsUpTo(WellFormed, MaxLen) \cup SeqsUpTo(Entries, MaxMixedLen)

TopArtists(a) == Obj([topartists |-> Obj([artist |-> a])])

\* documents with an array at topartists.artist
ArrayDocs == { TopArtists(Arr(a)) : a \in ArtistArrays }

\* documents with no array at topartists.artist
\* the document Last.fm answers an unknown user with
UserNotFound == Obj([error |-> Num(6), message |-> Str(<<"U", "s", "e", "r", " ", "n", "o", "t", " ", "f", "o", "u", "n", "d">>)])

NonArrayDocs ==
    { UserNotFound,
      Obj([topartists |-> Obj([total |-> Str(<<"0">>)])]),
      Obj([topartists |-> Str(Fia)]),
      TopArtists(Obj([name |-> Str(Fia), playcount |-> Str(Seven)])),
      TopArtists(Null),
      Arr(<<>>),
      Null }

Docs == ArrayDocs \cup NonArrayDocs

InvalidPeriods == { <<"7", "d", "a", "y", "s">>, <<"O", "v", "e", "r", "a", "l", "l">> }
Periods == ValidPeriods \cup InvalidPeriods
Limits == 0..MaxLimit \cup {U16Max}

\* the command lines given to the whole program
Configs ==
    { Config(<<"a", "p", "i", "_", "k", "e", "y">>, <<"u", "s", "e", "r", "n", "a", "m", "e">>, l, p) : l \in Limits, p \in Periods }

\* the Configs given to get_uri on its own
UriConfigs ==
    { Config(k, u, l, p) :
        k \in {<<"a", "p", "i", "_", "k", "e", "y">>, <<"k", "&", "y">>},
        u \in {<<"u", "s", "e", "r", "n", "a", "m", "e">>, <<"a", "&", "b">>, <<>>},
        l \in Limits,
        p \in Periods \cup {<<"7", "d", "a", "y", "&", "x">>} }

\* process exit: 0 main returned Ok, 1 main returned Err, 2 clap, 101 panic
Exit(code, cause) == [code |-> code, cause |-> cause]

\* println!("\n{}\n", output)
Println(s) == [kind |-> "println", text |-> Concat(<<<<"\n">>, s, <<"\n">>, <<"\n">>>>)]

\* a record the console logger (level Warn and above) writes to stdout
LogLine(level, msg) == [kind |-> "log", level |-> level, text |-> msg]

DecodeMsg == <<"C", "o", "u", "l", "d", " ", "n", "o", "t", " ", "c", "o", "n", "v",
       "e", "r", "t", " ", "r", "e", "s", "p", "o", "n", "s", "e", " ",
       "t", "o", " ", "J", "S", "O", "N", ".">>

---------------------------------------------------------------------------
(* main, lines 173-234, and construct_output, lines 62-106. *)

Init ==
    /\ pc = "main"
    /\ overflow_checks \in BOOLEAN
    /\ config = Unset
    /\ uri = None
    /\ resp = Unset
    /\ period = None
    /\ output = None
    /\ artists = None
    /\ i = 0
    /\ result = Unset
    /\ stdout = <<>>
    /\ exit = Unset

\* lines 174-213: the loggers are installed, the .env file is loaded
SetupLogging ==
    /\ pc = "main"
    /\ pc' = "args"
    /\ UNCHANGED <<overflow_checks, config, uri, resp, period, output, artists,
                   i, result, stdout, exit>>

\* lines 186 and 206: log_file(..)? or apply()? fails
SetupLoggingFail ==
    /\ pc = "main"
    /\ pc' = "returned"
    /\ exit' = Exit(1, "logging")
    /\ UNCHANGED <<overflow_checks, config, uri, resp, period, output, artists,
                   i, result, stdout>>

\* lines 216-219: Args::parse() and Config::new
ParseArgs ==
    /\ pc = "args"
    /\ config' \in Configs
    /\ pc' = "get"
    /\ UNCHANGED <<overflow_checks, uri, resp, period, output, artists, i,
                   result, stdout, exit>>

\* line 216: clap rejects the command line and exits the process
ParseArgsExit ==
    /\ pc = "args"
    /\ pc' = "exited"
    /\ exit' = Exit(2, "usage")
    /\ UNCHANGED <<overflow_checks, config, uri, resp, period, output, artists,
                   i, result, stdout>>

\* line 221: get(config.get_uri())? succeeds and .json::<Value>() gives resp
HttpGet ==
    /\ pc = "get"
    /\ uri' = Some(get_uri(config))
    /\ resp' \in { Ok(d) : d \in Docs } \cup { Err(DecodeMsg) }
    /\ pc' = "match"
    /\ UNCHANGED <<overflow_checks, config, period, output, artists, i, result,
                   stdout, exit>>

\* line 221: get(config.get_uri())? fails
HttpTransportFail ==
    /\ pc = "get"
    /\ uri' = Some(get_uri(config))
    /\ pc' = "returned"
    /\ exit' = Exit(1, "transport")
    /\ UNCHANGED <<overflow_checks, config, resp, period, output, artists, i,
                   result, stdout>>

\* lines 223-225: resp is Ok(json), construct_output(config, json) is called
CallConstructOutput ==
    /\ pc = "match"
    /\ resp.ok
    /\ pc' = "co_period"
    /\ UNCHANGED <<overflow_checks, config, uri, resp, period, output, artists,
                   i, result, stdout, exit>>

\* lines 227-230: resp is Err
DecodeFail ==
    /\ pc = "match"
    /\ ~resp.ok
    /\ stdout' = Append(stdout, LogLine("ERROR", DecodeMsg))
    /\ pc' = "returned"
    /\ exit' = Exit(1, "decode")
    /\ UNCHANGED <<overflow_checks, config, uri, resp, period, output, artists,
                   i, result>>

\* lines 63-72
ResolvePeriod ==
    /\ pc = "co_period"
    /\ LET label == PeriodLabel(config.period)
       IN  IF label.some
           THEN /\ period' = label
                /\ pc' = "co_header"
                /\ UNCHANGED result
           ELSE /\ result' = Err(InvalidPeriodMsg(config.period))
                /\ pc' = "co_return"
                /\ UNCHANGED period
    /\ UNCHANGED <<overflow_checks, config, uri, resp, output, artists, i,
                   stdout, exit>>

\* lines 74-79
BuildHeader ==
    /\ pc = "co_header"
    /\ output' = Some(Header(config.limit, period.v))
    /\ pc' = "co_artists"
    /\ UNCHANGED <<overflow_checks, config, uri, resp, period, artists, i,
                   result, stdout, exit>>

\* lines 81-83
ExtractArtists ==
    /\ pc = "co_artists"
    /\ LET a == AsArray(Index(Index(resp.v, "topartists"), "artist"))
       IN  IF a.some
           THEN /\ artists' = a
                /\ i' = 0
                /\ pc' = "co_loop"
                /\ UNCHANGED result
           ELSE /\ result' = Err(MalformedMsg)
                /\ pc' = "co_return"
                /\ UNCHANGED <<artists, i>>
    /\ UNCHANGED <<overflow_checks, config, uri, resp, period, output, stdout,
                   exit>>

\* lines 85-102: one iteration of the loop, on entry i (0-based)
RenderEntry ==
    /\ pc = "co_loop"
    /\ i < Len(artists.v)
    /\ LET artist == artists.v[i + 1]
           name == AsStr(Index(artist, "name"))
           playcount == AsStr(Index(artist, "playcount"))
       IN  IF overflow_checks /\ EndingOverflows(i, config.limit)
           THEN /\ pc' = "panicked"
                /\ exit' = Exit(101, "overflow")
                /\ UNCHANGED <<output, i, result>>
           ELSE IF ~name.some
           THEN /\ result' = Err(ArtistMsg)
                /\ pc' = "co_return"
                /\ UNCHANGED <<output, i, exit>>
           ELSE IF ~playcount.some
           THEN /\ result' = Err(PlaycountMsg)
                /\ pc' = "co_return"
                /\ UNCHANGED <<output, i, exit>>
           ELSE /\ output' = Some(Accumulate(output.v, name.v, playcount.v,
                                             Ending(i, config.limit)))
                /\ i' = i + 1
                /\ UNCHANGED <<pc, result, exit>>
    /\ UNCHANGED <<overflow_checks, config, uri, resp, period, artists, stdout>>

\* lines 104-105: the loop is over
ReturnOutput ==
    /\ pc = "co_loop"
    /\ i = Len(artists.v)
    /\ result' = Ok(Finalize(output.v))
    /\ pc' = "co_return"
    /\ UNCHANGED <<overflow_checks, config, uri, resp, period, output, artists,
                   i, stdout, exit>>

\* the Err of construct_output dropped: what was accumulated is printed
PropagateErrorSwallowed ==
    /\ pc = "co_return"
    /\ ~result.ok
    /\ stdout' = IF output = None THEN stdout
                 ELSE Append(stdout, Println(output.v))
    /\ pc' = "finish"
    /\ UNCHANGED <<overflow_checks, config, uri, resp, period, output, artists,
                   i, result, exit>>

\* line 225: construct_output(..)? on an Err
PropagateError ==
    /\ pc = "co_return"
    /\ ~result.ok
    /\ pc' = "returned"
    /\ exit' = Exit(1, "construct_output")
    /\ UNCHANGED <<overflow_checks, config, uri, resp, period, output, artists,
                   i, result, stdout>>

\* lines 225-226: construct_output(..)? on an Ok, then println!
PrintOutput ==
    /\ pc = "co_return"
    /\ result.ok
    /\ stdout' = Append(stdout, Println(result.v))
    /\ pc' = "finish"
    /\ UNCHANGED <<overflow_checks, config, uri, resp, period, output, artists,
                   i, result, exit>>

\* lines 232-233
Finish ==
    /\ pc = "finish"
    /\ pc' = "returned"
    /\ exit' = Exit(0, "finished")
    /\ UNCHANGED <<overflow_checks, config, uri, resp, period, output, artists,
                   i, result, stdout>>

Next ==
    \/ SetupLogging
    \/ SetupLoggingFail
    \/ ParseArgs
    \/ ParseArgsExit
    \/ HttpGet
    \/ HttpTransportFail
    \/ CallConstructOutput
    \/ DecodeFail
    \/ ResolvePeriod
    \/ BuildHeader
    \/ ExtractArtists
    \/ RenderEntry
    \/ ReturnOutput
    \/ PropagateError
    \/ PrintOutput
    \/ Finish

Spec == Init /\ [][Next]_vars

---------------------------------------------------------------------------
(* Config::get_uri on its own, lines 48-59. *)

InitUri ==
    /\ pc = "get_uri"
    /\ overflow_checks \in BOOLEAN
    /\ config \in UriConfigs
    /\ uri = None
    /\ resp = Unset
    /\ period = None
    /\ output = None
    /\ artists = None
    /\ i = 0
    /\ result = Unset
    /\ stdout = <<>>
    /\ exit = Unset

CallGetUri ==
    /\ pc = "get_uri"
    /\ uri' = Some(get_uri(config))
    /\ pc' = "got_uri"
    /\ UNCHANGED <<overflow_checks, config, resp, period, output, artists, i,
                   result, stdout, exit>>

NextUri == CallGetUri

SpecUri == InitUri /\ [][NextUri]_vars

---------------------------------------------------------------------------
(* What the properties below speak about. *)

Amp == "&"

\* construct_output was called and is over: it returned or it panicked
Ended == pc = "panicked" \/ result # Unset

\* the announcements written by println!
Printed == SelectSeq(stdout, LAMBDA e : e.kind = "println")

\* the value of a decimal numeral
RECURSIVE DecimalValue(_)
DecimalValue(d) ==
    IF d = <<>> THEN 0
    ELSE 10 * DecimalValue(SubSeq(d, 1, Len(d) - 1))
         + (CHOOSE n \in 0..9 : Digits[n + 1] = d[Len(d)])

IsDecimalOf(d, n) ==
    /\ Len(d) >= 1
    /\ \A k \in 1..Len(d) : \E m \in 1..10 : Digits[m] = d[k]
    /\ Len(d) > 1 => d[1] # "0"
    /\ DecimalValue(d) = n

\* the table of section 4.2
TableLabel(p) ==
    CASE p = <<"o", "v", "e", "r", "a", "l", "l">> -> <<>>
      [] p = <<"7", "d", "a", "y">> -> <<" ", "w", "e", "e", "k">>
      [] p = <<"1", "m", "o", "n", "t", "h">> -> <<" ", "m", "o", "n", "t", "h">>
      [] p = <<"3", "m", "o", "n", "t", "h">> -> <<" ", "3", " ", "m", "o", "n", "t", "h", "s">>
      [] p = <<"6", "m", "o", "n", "t", "h">> -> <<" ", "6", " ", "m", "o", "n", "t", "h", "s">>
      [] p = <<"1", "2", "m", "o", "n", "t", "h">> -> <<" ", "y", "e", "a", "r">>

\* the header line of section 4.2 for a numeral d and a label
HeaderLine(d, label) ==
    Concat(<<<<"U+266B", " ", "M", "y", " ", "T", "o", "p", " ">>, d, <<" ", "p", "l", "a", "y", "e", "d", " ", "a", "r", "t", "i", "s", "t",
       "s", " ", "i", "n", " ", "t", "h", "e", " ", "p", "a", "s", "t">>, label,
             <<" ", "v", "i", "a", " ", "#", "L", "a", "s", "t", "F", "M", " ",
       "U+266B", ":", "\n">>>>)

\* " {name} ({playcount}){punct}" for a well-formed entry
Chunk(entry, punct) ==
    Concat(<<<<" ">>, entry.o.name.s, <<" ", "(">>, entry.o.playcount.s, <<")">>, punct>>)

\* punctuation by position k (0-based) among n: "," up to n-3, ", &" at n-2
PunctAt(k, n) ==
    IF k <= n - 3 THEN <<",">> ELSE IF k = n - 2 THEN <<",", " ", "&">> ELSE <<>>

\* the chunks of an array of well-formed entries, punctuated as for n entries
Chunks(arr, n) ==
    Concat([k \in 1..Len(arr) |-> Chunk(arr[k], PunctAt(k - 1, n))])

AllWellFormed(arr) == \A k \in 1..Len(arr) : arr[k] \in WellFormed

\* index of the first entry that is not well-formed
FirstBad(arr) ==
    CHOOSE k \in 1..Len(arr) :
        arr[k] \notin WellFormed /\ \A j \in 1..(k - 1) : arr[j] \in WellFormed

---------------------------------------------------------------------------
(* The properties. *)

\* C1: with a period outside the six accepted values, construct_output
\* fails with the InvalidPeriod error whatever the JSON document is, and
\* the document is never read: no later step of the function is reached,
\* neither the header nor the artist array is ever produced.
InvalidPeriodFirst ==
    (config # Unset /\ config.period \notin ValidPeriods) =>
        /\ pc \notin {"co_header", "co_artists", "co_loop", "finish", "panicked"}
        /\ output = None
        /\ artists = None
        /\ result # Unset => result = Err(InvalidPeriodMsg(config.period))
        /\ pc = "co_return" => result # Unset

\* C1 happens: an invalid period met a document without topartists
InvalidPeriodSeen ==
    /\ pc = "co_return"
    /\ config.period = <<"7", "d", "a", "y", "s">>
    /\ resp.v \in NonArrayDocs
    /\ result = Err(InvalidPeriodMsg(<<"7", "d", "a", "y", "s">>))

\* C2: whenever construct_output returns a string under a valid period, the
\* string contains the header line with the decimal form of limit and the
\* label the table of section 4.2 gives for the period.
HeaderMatchesTable ==
    (result # Unset /\ result.ok /\ config.period \in ValidPeriods) =>
        LET d == to_string(config.limit)
        IN  /\ IsDecimalOf(d, config.limit)
            /\ Contains(result.v, HeaderLine(d, TableLabel(config.period)))

\* C2 happens: a string was returned for 6month and the largest limit
HeaderSeen ==
    /\ result # Unset
    /\ result.ok
    /\ config.period = <<"6", "m", "o", "n", "t", "h">>
    /\ config.limit = U16Max
    /\ Len(artists.v) >= 1

\* C5: under a valid period, a document with no array at topartists.artist
\* makes construct_output fail with "Error parsing JSON.": the loop is never
\* entered and no string is returned.
MalformedWithoutArray ==
    (resp # Unset /\ resp.ok /\ resp.v \in NonArrayDocs
        /\ config.period \in ValidPeriods) =>
        /\ pc \notin {"co_loop", "finish", "panicked"}
        /\ artists = None
        /\ result # Unset => result = Err(MalformedMsg)
        /\ pc = "co_return" => result # Unset

\* C5 happens: the document of a Last.fm error, without topartists
MalformedSeen ==
    /\ pc = "co_return"
    /\ config.period \in ValidPeriods
    /\ resp.v = UserNotFound
    /\ result = Err(MalformedMsg)

\* C3: with a valid period, N well-formed entries and limit = N,
\* construct_output returns a string that ends with the N chunks in array
\* order, entries 0..N-3 followed by ",", entry N-2 by ", &", entry N-1 by
\* nothing, and then ".".
PunctuationByCount ==
    (Ended /\ artists # None /\ AllWellFormed(artists.v)
        /\ Len(artists.v) = config.limit) =>
        /\ result # Unset
        /\ result.ok
        /\ EndsWith(result.v, Chunks(artists.v, Len(artists.v)) \o <<".">>)

\* C4: a returned string is exactly the header line, then the N chunks
\* " {name} ({playcount}){punct}" in array order, then one ".".
ExactlyHeaderChunksDot ==
    (result # Unset /\ result.ok) =>
        result.v = Concat(<<HeaderLine(to_string(config.limit),
                                       TableLabel(config.period)),
                            Chunks(artists.v, config.limit),
                            <<".">>>>)

\* C6: with a valid period and an array holding an entry without a string
\* name or a string playcount, construct_output fails with the error of the
\* first such entry: "Artist not found." when its name is bad,
\* "Playcount not found." when its name is good and its playcount is bad.
MissingFieldOfFirstBad ==
    (Ended /\ artists # None /\ ~AllWellFormed(artists.v)) =>
        /\ result # Unset
        /\ result = Err(IF artists.v[FirstBad(artists.v)] \in BadName
                        THEN ArtistMsg ELSE PlaycountMsg)

\* C9: with limit >= 1 and a valid period, construct_output ends with a
\* string, MalformedResponse or MissingField, and limit - 3 and limit - 2 are
\* never evaluated below zero.
NoUnderflowFromOne ==
    (config # Unset /\ config.limit >= 1 /\ config.period \in ValidPeriods) =>
        /\ pc # "panicked"
        /\ (pc = "co_loop" /\ i < Len(artists.v)) =>
               ~EndingOverflows(i, config.limit)

\* C10: with limit >= 3 and N well-formed entries, N # limit, the returned
\* string ends with the N chunks punctuated by index and limit alone ("," up
\* to limit-3, ", &" at limit-2, nothing from limit-1 on) and then ".", and
\* the header shows limit.
PunctuationByLimit ==
    (result # Unset /\ result.ok /\ config.limit >= 3
        /\ Len(artists.v) # config.limit) =>
        /\ EndsWith(result.v, Chunks(artists.v, config.limit) \o <<".">>)
        /\ \A d \in {to_string(n) : n \in Limits} :
               Contains(result.v, Concat(<<<<"M", "y", " ", "T", "o", "p", " ">>, d, <<" ", "p", "l", "a", "y", "e", "d">>>>))
                   <=> DecimalValue(d) = config.limit

\* C10 happens: four entries under limit 3
MoreEntriesThanLimit ==
    /\ result # Unset
    /\ result.ok
    /\ config.limit = 3
    /\ Len(artists.v) = MaxLen

\* the HTTP step or construct_output failed
ErrorPath ==
    \/ resp # Unset /\ ~resp.ok
    \/ result # Unset /\ ~result.ok
    \/ exit # Unset /\ exit.cause = "transport"

\* C7: the announcement is printed at most once, and only when the HTTP step
\* gave a JSON value and construct_output returned the string printed; when
\* the transport fails, the response is not JSON or construct_output returns
\* an error, nothing is printed, the normal finish is never reached and the
\* process ends with a non-zero status.
PrintedOnlyOnSuccess ==
    /\ Len(Printed) <= 1
    /\ Printed # <<>> =>
           /\ resp # Unset /\ resp.ok
           /\ result # Unset /\ result.ok
           /\ Printed = <<Println(result.v)>>
    /\ ErrorPath =>
           /\ Printed = <<>>
           /\ pc \in {"match", "co_return", "returned"}
           /\ pc = "returned" <=> exit # Unset
           /\ exit # Unset => exit.code = 1
    /\ pc = "panicked" => Printed = <<>>

\* C7 happens: an entry without playcount after a rendered one
ErrorAfterPartialOutput ==
    /\ pc = "returned"
    /\ result = Err(PlaycountMsg)
    /\ i = 1
    /\ output # None
    /\ exit = Exit(1, "construct_output")

---------------------------------------------------------------------------
(* Config::get_uri. *)

HasAmp(s) == \E k \in 1..Len(s) : s[k] = Amp

\* the part of the URI before the first parameter
Endpoint == <<"h", "t", "t", "p", ":", "/", "/", "w", "s", ".", "a", "u", "d", "i",
       "o", "s", "c", "r", "o", "b", "b", "l", "e", "r", ".", "c", "o",
       "m", "/", "2", ".", "0", "/", "?", "m", "e", "t", "h", "o", "d",
       "=", "u", "s", "e", "r", ".", "g", "e", "t", "t", "o", "p", "a",
       "r", "t", "i", "s", "t", "s">>

\* the '&'-separated components the four parameters and the format make
ExpectedComponents(c, d) ==
    << <<"u", "s", "e", "r", "=">> \o c.username,
       <<"a", "p", "i", "_", "k", "e", "y", "=">> \o c.api_key,
       <<"f", "o", "r", "m", "a", "t", "=", "j", "s", "o", "n">>,
       <<"p", "e", "r", "i", "o", "d", "=">> \o c.period,
       <<"l", "i", "m", "i", "t", "=">> \o d >>

\* C8 as stated: for every Config, the URI is the endpoint followed by
\* user={username}, api_key={api_key}, format=json, period={period} and
\* limit={limit}, each a '&'-separated component of its own.
EachParameterOwnComponent ==
    pc = "got_uri" =>
        LET parts == Split(uri.v, Amp)
            want == ExpectedComponents(config, to_string(config.limit))
        IN  /\ parts[1] = Endpoint
            /\ IsDecimalOf(to_string(config.limit), config.limit)
            /\ \A j \in 1..Len(want) :
                   \E k \in 2..Len(parts) : parts[k] = want[j]

\* C8 amended: for every Config the URI starts with the endpoint, contains
\* "&user={username}&", "&api_key={api_key}&", "&format=json&" and
\* "&period={period}&" and ends with "&limit={limit}", the values unchanged;
\* when username, api_key and period hold no '&', these five are exactly the
\* '&'-separated components after the endpoint.  The URI is always
\* produced, and the Config is never changed.
UriInterpolatesParameters ==
    /\ [](pc = "got_uri" =>
            LET parts == Split(uri.v, Amp)
                d == to_string(config.limit)
                want == ExpectedComponents(config, d)
            IN  /\ uri # None
                /\ IsDecimalOf(d, config.limit)
                /\ StartsWith(uri.v, Endpoint \o <<Amp>>)
                /\ \A j \in 1..4 :
                       Contains(uri.v, <<Amp>> \o want[j] \o <<Amp>>)
                /\ EndsWith(uri.v, <<Amp>> \o want[5])
                /\ parts[Len(parts)] = want[5]
                /\ (~HasAmp(config.username) /\ ~HasAmp(config.api_key)
                        /\ ~HasAmp(config.period)) =>
                       parts = <<Endpoint>> \o want)
    /\ [][config' = config /\ pc' = "got_uri"]_vars

\* C8 happens: the Config of the test, lines 115-125
UriOfTestConfig ==
    /\ pc = "got_uri"
    /\ config = Config(<<"a", "p", "i", "_", "k", "e", "y">>, <<"u", "s", "e", "r", "n", "a", "m", "e">>, 5, <<"7", "d", "a", "y">>)
    /\ Split(uri.v, Amp)[2] = <<"u", "s", "e", "r", "=", "u", "s", "e", "r", "n", "a", "m", "e">>

====
